---- MODULE Spec2Model ----
(***************************************************************************)
(* biostar-central: the FTP gateway's directory creation                   *)
(* (biostar/ftpserver/handler.py, BiostarFTPHandler) and the analysis      *)
(* management command (engine/management/commands/analysis.py).            *)
(*                                                                         *)
(* The persistence layer (auth.create_project, Project.create_analysis,    *)
(* Project.create_data, Analysis.create_job), the path parser              *)
(* (util.parse_virtual_path) and the session filesystem are not part of    *)
(* the sources at hand; they are modelled from their documented contract.  *)
(*                                                                         *)
(* The FTP server and the management command are separate programs over    *)
(* the same tables: GatewaySpec is the server with its sessions,           *)
(* IngestSpec the command with its concurrent processes.                   *)
(*                                                                         *)
(* StatsSpec is the forum's statistics (biostar/forum/api.py, stat_file    *)
(* and compute_stats) over the Post, Vote and User tables and the files    *)
(* of STATS_DIR.                                                           *)
(***************************************************************************)
EXTENDS Integers, Sequences, FiniteSets, TLC

\* ---------------------------------------------------------------- bounds
NumSessions == 2
MaxCmds == 3

NumProcs == 2

NumDays == 2
MaxRows == 1

Sessions == 1..NumSessions
Procs == 1..NumProcs
Days == 1..NumDays
Users == {"u1", "u2"}
Names == {"p1", "p2"}
TabNames == {"data"}
EntityNames == {"e1"}
TailNames == {"f1"}

\* The virtual paths a client sends, as their slash-separated segments.
Paths ==
    {<<>>}
    \cup {<<r>> : r \in Names}
    \cup {<<r, t>> : r \in Names, t \in TabNames}
    \cup {<<r, t, n>> : r \in Names, t \in TabNames, n \in EntityNames}
    \cup {<<r, t, n, x>> : r \in Names, t \in TabNames, n \in EntityNames, x \in TailNames}

VARIABLES
    projects,   \* the Project table: records [pk, name, owner, public, usage]
    nextPk,     \* the next primary key of the Project table
    fs,         \* per session: the filesystem object on_login installs
    pc,         \* per session: where its ftp_MKD stands ("idle", "create")
    last,       \* per session: the command in hand or last handled, and what the client saw
    cmds,       \* number of MKD commands issued so far, over all sessions
    analyses,   \* the Analysis table
    data,       \* the Data table
    jobs,       \* the Job table
    run,        \* per process of the analysis command: its position and locals
    siteAdmin,  \* whether a staff user exists
    posts,      \* the Post table: records [id, type, creation_date]
    votes,      \* the Vote table: records [id, date]
    users,      \* the User table: records [id, date_joined]
    files,      \* STATS_DIR: the text of each file, by name
    DEBUG,      \* settings.DEBUG
    ret,        \* the last call of compute_stats: its date and what it returned
    first       \* per day: what the first call of compute_stats for it returned

gwvars == <<fs, pc, last, cmds, nextPk>>
ingvars == <<analyses, data, jobs, run, siteAdmin>>
statvars == <<posts, votes, users, files, DEBUG, ret, first>>
vars == <<projects, gwvars, ingvars, statvars>>

\* ------------------------------------------------------------ path parser
\* parse_virtual_path: up to four segments; absent segments are empty and
\* whatever follows the third segment is the tail.
parse_virtual_path(ftppath) ==
    [root |-> IF Len(ftppath) >= 1 THEN ftppath[1] ELSE "",
     tab  |-> IF Len(ftppath) >= 2 THEN ftppath[2] ELSE "",
     name |-> IF Len(ftppath) >= 3 THEN ftppath[3] ELSE "",
     tail |-> IF Len(ftppath) >= 4 THEN SubSeq(ftppath, 4, Len(ftppath)) ELSE <<>>]

\* ------------------------------------------------------------ the session
NoFs == [logged |-> FALSE, user |-> "", chained |-> FALSE, extra |-> {}]

\* The projects an identity may read or own.
MayRead(user, p) == p.owner = user \/ p.public

\* The query the filesystem holds after login, evaluated against a store.
ProjectQuery(user, store) == {p \in store : MayRead(user, p)}

\* fs.projects as a collection: the login query, followed (once ftp_MKD has
\* chained it) by the projects the session appended.
FsProjects(f, store) ==
    ProjectQuery(f.user, store) \cup {p \in store : p.pk \in f.extra}

visibleProjects(s) == IF fs[s].logged THEN FsProjects(fs[s], projects) ELSE {}

\* ------------------------------------------------------------- the store
DefaultUsage == "USER"

NameTaken(store, name) == \E q \in store : q.name = name

\* auth.create_project: an insert-if-absent on the globally unique name; a
\* taken name is a conflict and nothing is inserted.
create_project(store, user, name, pk, public) ==
    IF NameTaken(store, name)
    THEN [conflict |-> TRUE, store |-> store]
    ELSE [conflict |-> FALSE,
          store |-> store \cup {[pk |-> pk, name |-> name, owner |-> user,
                                 public |-> public, usage |-> DefaultUsage]}]

\* ------------------------------------------------------------ responses
AlreadyExists == [code |-> "550", line |-> <<"Directory already exists.">>]
Created(path) == [code |-> "257", line |-> path]

\* ------------------------------------------------------------- ftp_MKD
\* The lookup by name on fs.projects (lines 74 and 87): a query has filter,
\* the itertools.chain that line 80 stores has not.
HasFilter(f) == ~f.chained

\* The root-level duplicate check of line 74.
RootCheck(f, store, root) == \E q \in ProjectQuery(f.user, store) : q.name = root

\* MKD_dispatch without the return of line 76: the duplicate is answered and
\* the command goes on to create the project.
MKD_dispatch_no_return(f, store, p) ==
    IF ~HasFilter(f)
    THEN [responses |-> <<>>, fault |-> "AttributeError", goon |-> FALSE]
    ELSE IF p.root # "" /\ p.tab = ""
    THEN IF RootCheck(f, store, p.root)
         THEN [responses |-> <<AlreadyExists>>, fault |-> "", goon |-> TRUE]
         ELSE [responses |-> <<>>, fault |-> "", goon |-> TRUE]
    ELSE IF p.name # "" /\ p.tail = <<>>
    THEN [responses |-> <<>>, fault |-> "ZeroDivisionError", goon |-> FALSE]
    ELSE [responses |-> <<>>, fault |-> "", goon |-> FALSE]

\* ftp_MKD up to the point where it either is over or goes on to create the
\* project: what is sent, the fault raised if any, and whether it goes on.
MKD_dispatch(f, store, p) ==
    IF ~HasFilter(f)
    THEN [responses |-> <<>>, fault |-> "AttributeError", goon |-> FALSE]
    ELSE IF p.root # "" /\ p.tab = ""
    THEN IF RootCheck(f, store, p.root)
         THEN [responses |-> <<AlreadyExists>>, fault |-> "", goon |-> FALSE]
         ELSE [responses |-> <<>>, fault |-> "", goon |-> TRUE]
    ELSE IF p.name # "" /\ p.tail = <<>>
    THEN [responses |-> <<>>, fault |-> "ZeroDivisionError", goon |-> FALSE]
    ELSE [responses |-> <<>>, fault |-> "", goon |-> FALSE]

\* chain_projects with every project of the table appended instead of the one
\* just created (Project.objects.all() for Project.objects.filter(pk=...)).
chain_all_projects(f, pk, store) ==
    [f EXCEPT !.chained = TRUE, !.extra = @ \cup {q.pk : q \in store}]

\* Line 80: fs.projects becomes chain(fs.projects, Project.objects.filter(pk=project.pk)).
chain_projects(f, pk, store) ==
    [f EXCEPT !.chained = TRUE, !.extra = @ \cup {pk}]

\* Lines 79-83 on the outcome of create_project.
MKD_create(f, store, path, pk, public) ==
    LET p == parse_virtual_path(path)
        c == create_project(store, f.user, p.root, pk, public)
    IN  IF c.conflict
        THEN [responses |-> <<>>, fault |-> "IntegrityError", store |-> store,
              fs |-> f, created |-> 0]
        ELSE [responses |-> <<Created(path)>>, fault |-> "", store |-> c.store,
              fs |-> chain_projects(f, pk, c.store), created |-> pk]

\* Whether project root holds an entity called name under tab.
EntityExists(root, tab, name) ==
    \E q \in projects :
        /\ q.name = root
        /\ \/ tab = "data" /\ \E d \in data : d.project = q.pk /\ d.name = name
           \/ tab = "analyses" /\ \E a \in analyses : a.project = q.pk /\ a.name = name

NoCmd == [path |-> <<>>, done |-> FALSE, responses |-> <<>>, fault |-> "",
          existed |-> FALSE, visible |-> FALSE, entity |-> FALSE, later |-> FALSE,
          created |-> 0]

\* on_login: the filesystem of the user who logged in.
on_login(s, username) ==
    /\ ~fs[s].logged
    /\ fs' = [fs EXCEPT ![s] = [logged |-> TRUE, user |-> username,
                                chained |-> FALSE, extra |-> {}]]
    /\ UNCHANGED <<projects, nextPk, pc, last, cmds, ingvars, statvars>>

\* ftp_MKD, lines 67-76 and 87-97.
ftp_MKD(s, path) ==
    /\ fs[s].logged
    /\ pc[s] = "idle"
    /\ cmds < MaxCmds
    /\ LET p == parse_virtual_path(path)
           d == MKD_dispatch(fs[s], projects, p)
       IN  /\ last' = [last EXCEPT ![s] =
                         [path |-> path, done |-> ~d.goon,
                          responses |-> d.responses, fault |-> d.fault,
                          existed |-> NameTaken(projects, p.root),
                          visible |-> NameTaken(visibleProjects(s), p.root),
                          entity |-> EntityExists(p.root, p.tab, p.name),
                          later |-> fs[s].extra # {},
                          created |-> 0]]
           /\ pc' = [pc EXCEPT ![s] = IF d.goon THEN "create" ELSE "idle"]
    /\ cmds' = cmds + 1
    /\ UNCHANGED <<projects, nextPk, fs, ingvars, statvars>>

\* ftp_MKD, lines 77-85: the project is created after the check came back empty.
ftp_MKD_create(s) ==
    /\ pc[s] = "create"
    /\ \E public \in BOOLEAN :
         LET r == MKD_create(fs[s], projects, last[s].path, nextPk, public)
         IN  /\ projects' = r.store
             /\ nextPk' = IF r.created # 0 THEN nextPk + 1 ELSE nextPk
             /\ fs' = [fs EXCEPT ![s] = r.fs]
             /\ last' = [last EXCEPT ![s] =
                           [@ EXCEPT !.done = TRUE, !.responses = @ \o r.responses,
                                     !.fault = r.fault, !.created = r.created]]
    /\ pc' = [pc EXCEPT ![s] = "idle"]
    /\ UNCHANGED <<cmds, ingvars, statvars>>

\* ftp_MKD run without interruption on a store: dispatch, then creation.
MKD_outcome(f, store, path, pk, public) ==
    LET d == MKD_dispatch(f, store, parse_virtual_path(path))
    IN  IF d.goon
        THEN LET r == MKD_create(f, store, path, pk, public)
             IN  [responses |-> r.responses, fault |-> r.fault, store |-> r.store]
        ELSE [responses |-> d.responses, fault |-> d.fault, store |-> store]

\* ------------------------------------------ the analysis command: inputs
DefaultPid == 1
Pids == {DefaultPid, DefaultPid + 1}

\* USAGE_CHOICES of Analysis and of Project: (code, label) pairs.
USER == "USER"
AnalysisUsageChoices == {<<"USER", "user">>, <<"ADMIN", "admin">>}
ProjectUsageChoices == {<<"USER", "user">>, <<"ADMIN", "admin">>}
UsageLabels == {c[2] : c \in AnalysisUsageChoices}

\* usage_map(dict(choices)).get(label, default), line 44.
usage_map(choices, label, default) ==
    IF \E c \in choices : c[2] = label
    THEN (CHOOSE c \in choices : c[2] = label)[1]
    ELSE default

\* The files the --json and --template options may name ("" is an option
\* that was not given).
JsonArgs == {"", "missing.hjson", "locked.hjson", "broken.hjson",
             "d1.hjson", "d2.hjson", "d3.hjson", "d4.hjson"}
TemplateArgs == {"", "missing.sh", "locked.sh", "t.sh"}

isfile(f) == f \notin {"", "missing.hjson", "missing.sh"}
readable(f) == isfile(f) /\ f \notin {"locked.hjson", "locked.sh"}
parses(f) == readable(f) /\ f # "broken.hjson"

\* open(f).read(): the text of a file.
read(f) == <<"text of", f>>

\* hjson.loads of each file's text: the top-level keys in document order, each
\* with the object it names.
Field(key, attrs) == [key |-> key, attrs |-> attrs]
loads(f) ==
    CASE f = "d1.hjson" ->
            << Field("settings", [name |-> "A1", help |-> "  usage", summary |-> "first"]),
               Field("reads", [path |-> "/data/a.txt", data_type |-> "reads"]),
               Field("cutoff", [value |-> "10"]) >>
      [] f = "d2.hjson" ->
            << Field("settings", [name |-> "A2"]),
               Field("reads", [path |-> "/data/a.txt", data_type |-> "reads"]),
               Field("genome", [path |-> "/data/gone.fa", data_type |-> "fasta"]) >>
      [] f = "d3.hjson" ->
            << Field("sample", [path |-> "/data/b.txt", data_type |-> "nosuchtype"]),
               Field("reads", [path |-> "/data/a.txt", data_type |-> "reads"]) >>
      [] f = "d4.hjson" ->
            << Field("settings", [name |-> "A4", summary |-> "fourth",
                                  path |-> "/data/b.txt"]),
               Field("reads", [path |-> "/data/a.txt", data_type |-> "reads"]) >>
      [] OTHER -> <<>>

HasKey(attrs, k) == k \in DOMAIN attrs

\* A lookup that answers the empty text for a missing key.
get_or_empty(attrs, k, default) == IF HasKey(attrs, k) THEN attrs[k] ELSE ""

\* dict.get(k, default)
Get(attrs, k, default) == IF HasKey(attrs, k) THEN attrs[k] ELSE default

\* json_data.get("settings", {})
Settings(doc) ==
    IF \E i \in 1..Len(doc) : doc[i].key = "settings"
    THEN doc[CHOOSE i \in 1..Len(doc) : doc[i].key = "settings"].attrs
    ELSE [none |-> ""]

\* textwrap.dedent
dedent(text) == IF text = "  usage" THEN "usage" ELSE text

\* DATA_TYPES.get(data_type)
DATA_TYPES(data_type) ==
    IF data_type \in {"reads", "fasta"} THEN data_type ELSE "None"

\* The paths that resolve to a file when a Data record is created.
Resolvable(path) == path \in {"/data/a.txt", "/data/b.txt"}

\* ------------------------------------------- the analysis command: handle
\* A process of the command: its position, its locals (at is the index in
\* json_data.items() of the item the loop of line 107 is at), and what it did.
NoRun == [pc |-> "idle", pid |-> 0, json |-> "", template |-> "",
          create_job |-> FALSE, usage |-> "", at |-> 0, analysis |-> <<>>,
          made |-> {}, outcome |-> "", changed |-> FALSE, reported |-> {}]

\* The primary keys of the rows a process inserts: one analysis, one job and
\* at most one Data row per item of its document.
AnalysisId(r) == <<"analysis", r>>
DataId(r, i) == <<"data", r, i>>
JobId(r) == <<"job", r>>

Finish(rec, outcome) == [rec EXCEPT !.pc = "done", !.outcome = outcome]

\* Line 65: Project.objects.filter(id=pid).update(usage=project_usage)
update_usage(store, pid, usage) ==
    {IF q.pk = pid THEN [q EXCEPT !.usage = usage] ELSE q : q \in store}

\* Lines 46-47: both usages are looked up under options['analysis_usage'].
analysis_usage_of(o) == usage_map(AnalysisUsageChoices, o.analysis_usage, USER)
project_usage_of(o) == usage_map(ProjectUsageChoices, o.analysis_usage, USER)

\* Lines 49-92: the outcome of the checks that precede the creation of the
\* analysis ("" when all of them pass).
precheck(o, store, admin) ==
    IF ~admin THEN "no admin"
    ELSE IF ~o.add THEN "no action"
    ELSE IF o.json = "" \/ o.template = "" THEN "no json or template"
    ELSE IF ~\E q \in store : q.pk = o.pid THEN "no project"
    ELSE IF ~isfile(o.json) THEN "no json file"
    ELSE IF ~isfile(o.template) THEN "no template file"
    ELSE IF ~parses(o.json) THEN "json error"
    ELSE IF ~readable(o.template) THEN "template error"
    ELSE ""

\* Whether handle gets as far as line 65.
reaches_update(o, admin) == admin /\ o.add /\ o.json # "" /\ o.template # ""

\* The Project table after lines 49-92.
store_after_precheck(o, store, admin) ==
    IF reaches_update(o, admin)
    THEN update_usage(store, o.pid, project_usage_of(o))
    ELSE store

Options ==
    [add : BOOLEAN, json : JsonArgs, template : TemplateArgs, pid : Pids,
     create_job : BOOLEAN, analysis_usage : UsageLabels, project_usage : UsageLabels]

\* handle, lines 38-92. The processes are numbered in the order they start.
handle(r, o) ==
    /\ run[r].pc = "idle"
    /\ \A q \in Procs : q < r => run[q].pc # "idle"
    /\ LET out == precheck(o, projects, siteAdmin)
           started == [NoRun EXCEPT !.pid = o.pid, !.json = o.json,
                                    !.template = o.template,
                                    !.create_job = o.create_job,
                                    !.usage = analysis_usage_of(o)]
       IN  /\ projects' = store_after_precheck(o, projects, siteAdmin)
           /\ run' = [run EXCEPT ![r] =
                        [(IF out = "" THEN [started EXCEPT !.pc = "analysis"]
                                      ELSE Finish(NoRun, out))
                         EXCEPT !.changed = (projects' # projects)]]
    /\ UNCHANGED <<gwvars, statvars, analyses, data, jobs, siteAdmin>>

\* Project.create_analysis: fails when the project already has an analysis of
\* that name.
AnalysisNameTaken(table, pid, name) ==
    \E a \in table : a.project = pid /\ a.name = name

\* Lines 107-111: the index of the first item of json_data.items(), from
\* index i on, whose value has a path; the loop passes over the others.
next_with_path(doc, i) ==
    IF \E j \in i..Len(doc) : Get(doc[j].attrs, "path", "") # ""
    THEN CHOOSE j \in i..Len(doc) :
             /\ Get(doc[j].attrs, "path", "") # ""
             /\ \A k \in i..(j - 1) : Get(doc[k].attrs, "path", "") = ""
    ELSE Len(doc) + 1

\* analysis_row with the two texts handed over in each other's place.
analysis_row_swapped(r, rec) ==
    LET st == Settings(loads(rec.json))
    IN  [id |-> AnalysisId(r), project |-> rec.pid,
         name |-> Get(st, "name", "No name set"),
         text |-> dedent(Get(st, "help", "No help set")),
         summary |-> Get(st, "summary", "No summary set"),
         json_text |-> read(rec.template), template |-> read(rec.json),
         usage |-> rec.usage, run |-> r]

\* Lines 95-100: the analysis that project.create_analysis is asked for.
analysis_row(r, rec) ==
    LET st == Settings(loads(rec.json))
    IN  [id |-> AnalysisId(r), project |-> rec.pid,
         name |-> Get(st, "name", "No name set"),
         text |-> dedent(Get(st, "help", "No help set")),
         summary |-> Get(st, "summary", "No summary set"),
         json_text |-> read(rec.json), template |-> read(rec.template),
         usage |-> rec.usage, run |-> r]

\* handle_create_analysis for a command that inserts the analysis row itself,
\* without asking whether the project has the name.
insert_analysis_unchecked(r) ==
    /\ run[r].pc = "analysis"
    /\ LET rec == run[r]
       IN  /\ analyses' = analyses \cup {analysis_row(r, rec)}
           /\ run' = [run EXCEPT ![r] =
                        IF rec.create_job
                        THEN [rec EXCEPT !.pc = "data",
                                         !.at = next_with_path(loads(rec.json), 1),
                                         !.analysis = AnalysisId(r)]
                        ELSE Finish([rec EXCEPT !.analysis = AnalysisId(r)],
                                    "added")]
    /\ UNCHANGED <<projects, gwvars, statvars, data, jobs, siteAdmin>>

\* handle, lines 94-101.
handle_create_analysis(r) ==
    /\ run[r].pc = "analysis"
    /\ LET rec == run[r]
           row == analysis_row(r, rec)
       IN  IF AnalysisNameTaken(analyses, rec.pid, row.name)
           THEN /\ run' = [run EXCEPT ![r] = Finish(rec, "fault")]
                /\ UNCHANGED analyses
           ELSE /\ analyses' = analyses \cup {row}
                /\ run' = [run EXCEPT ![r] =
                             IF rec.create_job
                             THEN [rec EXCEPT !.pc = "data",
                                              !.at = next_with_path(loads(rec.json), 1),
                                              !.analysis = AnalysisId(r)]
                             ELSE Finish([rec EXCEPT !.analysis = AnalysisId(r)],
                                         "added")]
    /\ UNCHANGED <<projects, gwvars, statvars, data, jobs, siteAdmin>>

\* The items of json_data.items() still to be looked at.
Pending(rec) == rec.at <= Len(loads(rec.json))

\* handle, lines 107-113, for the next item of json_data.items() that has a
\* path.
handle_create_data(r) ==
    /\ run[r].pc = "data"
    /\ Pending(run[r])
    /\ LET rec == run[r]
           value == loads(rec.json)[rec.at]
           path == Get(value.attrs, "path", "")
           data_type == DATA_TYPES(Get(value.attrs, "data_type", ""))
       IN  IF ~Resolvable(path)
           THEN /\ run' = [run EXCEPT ![r] = Finish(rec, "fault")]
                /\ UNCHANGED data
           ELSE /\ data' = data \cup
                      {[id |-> DataId(r, rec.at), project |-> rec.pid,
                        name |-> path, data_type |-> data_type,
                        key |-> value.key, run |-> r]}
                /\ run' = [run EXCEPT ![r] =
                             [rec EXCEPT !.at = next_with_path(loads(rec.json), @ + 1),
                                         !.made = @ \cup {DataId(r, rec.at)}]]
    /\ UNCHANGED <<projects, gwvars, statvars, analyses, jobs, siteAdmin>>

\* handle_create_job for a command that creates the job as soon as the
\* analysis is there, at whatever item the loop is.
create_job_early(r) ==
    /\ run[r].pc = "data"
    /\ jobs' = jobs \cup
           {[id |-> JobId(r), analysis |-> run[r].analysis, usage |-> run[r].usage,
             paths |-> {}, run |-> r]}
    /\ run' = [run EXCEPT ![r] = Finish(@, "job created")]
    /\ UNCHANGED <<projects, gwvars, statvars, analyses, data, siteAdmin>>

\* The paths json_data binds a job to.
BoundPaths(doc) ==
    {doc[i].attrs["path"] : i \in {j \in 1..Len(doc) : HasKey(doc[j].attrs, "path")}}

\* handle, line 114.
handle_create_job(r) ==
    /\ run[r].pc = "data"
    /\ ~Pending(run[r])
    /\ jobs' = jobs \cup
           {[id |-> JobId(r), analysis |-> run[r].analysis, usage |-> run[r].usage,
             paths |-> BoundPaths(loads(run[r].json)), run |-> r]}
    /\ run' = [run EXCEPT ![r] = Finish(@, "job created")]
    /\ UNCHANGED <<projects, gwvars, statvars, analyses, data, siteAdmin>>

\* --------------------------------------------------- the forum statistics
\* Post.QUESTION, ANSWER, COMMENT, BLOG and Post.TOP_LEVEL.
PostTypes == {"QUESTION", "ANSWER", "COMMENT", "BLOG"}
TOP_LEVEL == {"QUESTION", "BLOG"}

\* The datetimes compute_stats is called with: a day and a time of day.
Datetimes == [day : Days, hour : {0, 12}]

\* datetime.date()
date_of(datetime) == datetime.day

\* util.datetime_to_iso and util.datetime_to_unix of a date.
datetime_to_iso(date) == <<"iso", date>>
datetime_to_unix(date) == date * 86400

\* Line 31: the name of the file of a date.
file_name(date) == <<"2020", "-", "1", "-", date, ".json">>
FileNames == {file_name(d) : d \in Days}

\* The content of a name of STATS_DIR that is no file.
NoFile == <<>>

\* The ids of a query's rows, as the list the comprehension builds.
RECURSIVE ids_of(_)
ids_of(rows) ==
    IF rows = {} THEN <<>>
    ELSE LET m == CHOOSE x \in rows : \A y \in rows : x.id <= y.id
         IN  <<m.id>> \o ids_of(rows \ {m})

\* The keys of the dictionary of lines 89-101, in order, and the kind of
\* value each holds.
DataKeys == <<"date", "timestamp", "questions", "answers", "toplevel", "comments",
              "votes", "users", "new_users", "new_posts", "new_votes">>
KeyOf(i) == DataKeys[i]
KindOf(key) ==
    IF key = "date" THEN "string"
    ELSE IF key \in {"new_users", "new_posts", "new_votes"} THEN "array"
    ELSE "number"

\* json.dumps of the dictionary: its members in order, each a key and the
\* JSON value of its kind.
json_dumps(d) ==
    [i \in 1..Len(DataKeys) |-> <<KeyOf(i), KindOf(KeyOf(i)), d[KeyOf(i)]>>]

\* json.loads of a text json_dumps wrote: the dictionary of its members.
json_loads(text) ==
    [key \in {text[i][1] : i \in 1..Len(text)} |->
        text[CHOOSE i \in 1..Len(text) : text[i][1] = key][3]]

\* Lines 35-39.
load_file(dir, date) ==
    IF dir[file_name(date)] = NoFile
    THEN [raised |-> TRUE, value |-> NoFile]
    ELSE [raised |-> FALSE, value |-> json_loads(dir[file_name(date)])]

\* dump_into_file for a stat_file that writes nothing.
dump_nothing(dir, date, d) == dir

\* Lines 41-43.
dump_into_file(dir, date, d) ==
    [dir EXCEPT ![file_name(date)] = json_dumps(d)]

\* Lines 70-101: the statistics of the day start, from the tables.
Stats(start, P, V, U) ==
    LET end == start + 1
        query(type) == {x \in P : x.type = type /\ x.creation_date < end}
    IN  [date |-> datetime_to_iso(start),
         timestamp |-> datetime_to_unix(start),
         questions |-> Cardinality(query("QUESTION")),
         answers |-> Cardinality(query("ANSWER")),
         toplevel |-> Cardinality({x \in P : /\ x.type \in TOP_LEVEL
                                             /\ x.creation_date < end
                                             /\ x.type # "BLOG"}),
         comments |-> Cardinality(query("COMMENT")),
         votes |-> Cardinality({x \in V : x.date < end}),
         users |-> Cardinality({x \in U : x.date_joined < end}),
         new_users |-> ids_of({x \in U : x.date_joined >= start /\ x.date_joined < end}),
         new_posts |-> ids_of({x \in P : x.creation_date >= start /\ x.creation_date < end}),
         new_votes |-> ids_of({x \in V : x.date >= start /\ x.date < end})]

\* The rows of the three tables.
NumRows == Cardinality(posts) + Cardinality(votes) + Cardinality(users)

\* No call yet; fresh is whether what the call returned was the statistics
\* of the tables as they were at the call.
NoCall == [date |-> 0, data |-> NoFile, computed |-> FALSE, fresh |-> FALSE]

\* compute_stats, lines 61-103.
compute_stats(datetime) ==
    /\ LET start == date_of(datetime)
           cached == load_file(files, start)
           d == Stats(start, posts, votes, users)
       IN  /\ IF ~cached.raised
              THEN /\ ret' = [date |-> start, data |-> cached.value,
                                computed |-> FALSE, fresh |-> cached.value = d]
                   /\ UNCHANGED files
              ELSE /\ ret' = [date |-> start, data |-> d,
                                computed |-> TRUE, fresh |-> TRUE]
                   /\ files' = IF ~DEBUG THEN dump_into_file(files, start, d) ELSE files
           /\ first' = IF first[start] = NoFile
                       THEN [first EXCEPT ![start] = ret'.data]
                       ELSE first
    /\ UNCHANGED <<projects, gwvars, ingvars, posts, votes, users, DEBUG>>

\* A post, a vote or a user is added on a day.
add_post(type, day) ==
    /\ NumRows < MaxRows
    /\ posts' = posts \cup {[id |-> Cardinality(posts) + 1, type |-> type,
                             creation_date |-> day]}
    /\ UNCHANGED <<projects, gwvars, ingvars, votes, users, files, DEBUG, ret, first>>

add_vote(day) ==
    /\ NumRows < MaxRows
    /\ votes' = votes \cup {[id |-> Cardinality(votes) + 1, date |-> day]}
    /\ UNCHANGED <<projects, gwvars, ingvars, posts, users, files, DEBUG, ret, first>>

add_user(day) ==
    /\ NumRows < MaxRows
    /\ users' = users \cup {[id |-> Cardinality(users) + 1, date_joined |-> day]}
    /\ UNCHANGED <<projects, gwvars, ingvars, posts, votes, files, DEBUG, ret, first>>

\* ------------------------------------------------------ specifications
\* A project that exists before any session connects.
SeedProject == [pk |-> DefaultPid, name |-> "p1", owner |-> "u1",
                public |-> TRUE, usage |-> DefaultUsage]

\* The forum with empty tables, no statistics file and no call so far.
StatsIdle ==
    /\ posts = {}
    /\ votes = {}
    /\ users = {}
    /\ files = [n \in FileNames |-> NoFile]
    /\ DEBUG = FALSE
    /\ ret = NoCall
    /\ first = [d \in Days |-> NoFile]

GatewayInit ==
    /\ StatsIdle
    /\ projects \in {{}, {SeedProject}}
    /\ nextPk = DefaultPid + 1
    /\ fs = [s \in Sessions |-> NoFs]
    /\ pc = [s \in Sessions |-> "idle"]
    /\ last = [s \in Sessions |-> NoCmd]
    /\ cmds = 0
    /\ analyses = {}
    /\ data = {}
    /\ jobs = {}
    /\ run = [r \in Procs |-> NoRun]
    /\ siteAdmin = TRUE

GatewayNext ==
    \/ \E s \in Sessions, u \in Users : on_login(s, u)
    \/ \E s \in Sessions, path \in Paths : ftp_MKD(s, path)
    \/ \E s \in Sessions : ftp_MKD_create(s)

GatewaySpec == GatewayInit /\ [][GatewayNext]_vars

IngestInit ==
    /\ StatsIdle
    /\ projects = {[SeedProject EXCEPT !.public = FALSE]}
    /\ nextPk = DefaultPid + 1
    /\ fs = [s \in Sessions |-> NoFs]
    /\ pc = [s \in Sessions |-> "idle"]
    /\ last = [s \in Sessions |-> NoCmd]
    /\ cmds = 0
    /\ analyses = {}
    /\ data = {}
    /\ jobs = {}
    /\ run = [r \in Procs |-> NoRun]
    /\ siteAdmin \in BOOLEAN

IngestNext ==
    \/ \E r \in Procs, o \in Options : handle(r, o)
    \/ \E r \in Procs : handle_create_analysis(r)
    \/ \E r \in Procs : handle_create_data(r)
    \/ \E r \in Procs : handle_create_job(r)

IngestSpec == IngestInit /\ [][IngestNext]_vars

\* The forum starts with empty tables and an empty STATS_DIR.
StatsInit ==
    /\ posts = {}
    /\ votes = {}
    /\ users = {}
    /\ files = [n \in FileNames |-> NoFile]
    /\ DEBUG \in BOOLEAN
    /\ ret = NoCall
    /\ first = [d \in Days |-> NoFile]
    /\ projects = {}
    /\ nextPk = DefaultPid + 1
    /\ fs = [s \in Sessions |-> NoFs]
    /\ pc = [s \in Sessions |-> "idle"]
    /\ last = [s \in Sessions |-> NoCmd]
    /\ cmds = 0
    /\ analyses = {}
    /\ data = {}
    /\ jobs = {}
    /\ run = [r \in Procs |-> NoRun]
    /\ siteAdmin = TRUE

StatsNext ==
    \/ \E datetime \in Datetimes : compute_stats(datetime)
    \/ \E type \in PostTypes, day \in Days : add_post(type, day)
    \/ \E day \in Days : add_vote(day)
    \/ \E day \in Days : add_user(day)

StatsSpec == StatsInit /\ [][StatsNext]_vars

\* ------------------------------------------------- properties: the gateway
\* The negative response a command on an unknown or invisible project is to get.
NotFound == [code |-> "550", line |-> <<"Not found.">>]

IsRootPath(path) == Len(path) = 1
RootOf(path) == parse_virtual_path(path).root

\* The sessions whose last MKD was a root-level MKD for n issued while no
\* project named n existed.
Racers(n) ==
    {s \in Sessions : last[s].done /\ last[s].path = <<n>> /\ ~last[s].existed}

\* C1: when two or more sessions issue a root-level MKD for the same unused
\* name, exactly one is answered 257, the others are answered 550 "already
\* exists", and exactly one project of that name exists afterwards.
C1_RaceExactlyOneCreated ==
    \A n \in Names :
        Cardinality(Racers(n)) >= 2 =>
            /\ Cardinality({s \in Racers(n) :
                              last[s].responses = <<Created(<<n>>)>>}) = 1
            /\ \A s \in Racers(n) :
                   /\ last[s].fault = ""
                   /\ last[s].responses \in {<<Created(<<n>>)>>, <<AlreadyExists>>}
            /\ Cardinality({q \in projects : q.name = n}) = 1

\* C2: a root-level MKD naming an existing project is answered "already
\* exists" and creates nothing, and no two projects share a name.
C2_ExistingNameRejected ==
    /\ \A s \in Sessions :
           (last[s].done /\ IsRootPath(last[s].path) /\ last[s].existed) =>
               /\ last[s].responses = <<AlreadyExists>>
               /\ last[s].fault = ""
               /\ last[s].created = 0
    /\ \A q1, q2 \in projects : q1.name = q2.name => q1 = q2

\* C3: a root-level MKD with an unused name creates a project owned by the
\* session's user, is answered 257 with the path, and the project is in the
\* session's visible set.
C3_UnusedNameCreated ==
    \A s \in Sessions :
        (last[s].done /\ IsRootPath(last[s].path) /\ ~last[s].existed) =>
            /\ last[s].responses = <<Created(last[s].path)>>
            /\ \E q \in visibleProjects(s) :
                   /\ q.pk = last[s].created
                   /\ q.name = RootOf(last[s].path)
                   /\ q.owner = fs[s].user

\* C4: every MKD handled ends with exactly one response and no fault.
C4_ExactlyOneResponse ==
    \A s \in Sessions :
        last[s].done => Len(last[s].responses) = 1 /\ last[s].fault = ""

\* C5: a MKD with root, tab and name and no tail on a visible project creates
\* the named entity and is answered 257 when the project has no entity of that
\* name, is answered "already exists" when it has one, and raises no fault.
C5_NamedEntityCreated ==
    \A s \in Sessions :
        (last[s].done /\ Len(last[s].path) = 3 /\ last[s].visible) =>
            LET p == parse_virtual_path(last[s].path)
            IN  /\ last[s].fault = ""
                /\ IF last[s].entity
                   THEN last[s].responses = <<AlreadyExists>>
                   ELSE /\ last[s].responses = <<Created(last[s].path)>>
                        /\ EntityExists(p.root, p.tab, p.name)

\* C6: a MKD with a root and a tab but no name creates nothing and is
\* answered "not found" when the root is not a project visible to the session.
C6_TabOnlyNotFound ==
    \A s \in Sessions :
        (last[s].done /\ Len(last[s].path) = 2) =>
            /\ last[s].created = 0
            /\ ~last[s].visible =>
                   last[s].responses = <<NotFound>> /\ last[s].fault = ""

\* C7: for a session that cannot see project R, every MKD is answered the
\* same, and changes the store the same, with R in the store as without it.
C7_InvisibleProjectUnobservable ==
    \A s \in Sessions, path \in Paths, R \in projects, public \in BOOLEAN :
        (fs[s].logged /\ pc[s] = "idle" /\ R \notin visibleProjects(s)) =>
            LET with == MKD_outcome(fs[s], projects, path, nextPk, public)
                without == MKD_outcome(fs[s], projects \ {R}, path, nextPk, public)
            IN  /\ with.responses = without.responses
                /\ with.fault = without.fault
                /\ with.store \ projects = without.store \ (projects \ {R})

\* Every project in a session's visible set is one its identity may read or
\* own, and what the session appended to its set are projects of its identity.
VisibleOnlyEntitled ==
    \A s \in Sessions :
        fs[s].logged =>
            /\ \A q \in visibleProjects(s) : MayRead(fs[s].user, q)
            /\ \A k \in fs[s].extra :
                   \E q \in projects : q.pk = k /\ q.owner = fs[s].user

\* A step changes what a logged-in session holds only when that session's own
\* MKD creates a project, and then by appending that project.
GrowsByOwnCreation ==
    \A s \in Sessions :
        (fs[s].logged /\ fs'[s] # fs[s]) =>
            /\ pc[s] = "create"
            /\ last'[s].created # 0
            /\ fs'[s].extra = fs[s].extra \cup {last'[s].created}

\* C8: in every reachable state a session's visible set holds only projects
\* its identity may read or own, whatever other sessions have created, and
\* MKD extends a session's set only by that session's own successful creation.
C8_VisibleSet == []VisibleOnlyEntitled /\ [][GrowsByOwnCreation]_vars

\* Another user's session created a private project, and it is not in the
\* visible set of this logged-in session.
C8_Witness ==
    \E s, t \in Sessions, q \in projects :
        /\ q.pk \in fs[s].extra
        /\ ~q.public
        /\ fs[t].logged
        /\ fs[t].user # q.owner
        /\ q \notin visibleProjects(t)

\* Whether a response is among those sent.
Sent(response, responses) == \E i \in 1..Len(responses) : responses[i] = response

\* A command that was answered "already exists" got no other answer and
\* created nothing.
RejectedIsOnlyAnswer ==
    \A s \in Sessions :
        Sent(AlreadyExists, last[s].responses) =>
            last[s].responses = <<AlreadyExists>> /\ last[s].created = 0

\* After a step in which a MKD is dispatched (only these count in cmds), a
\* command answered "already exists" has ended without fault, and the step
\* left the store and the session's visible projects as they were.
RejectedChangesNothing ==
    \A s \in Sessions :
        (cmds' # cmds /\ Sent(AlreadyExists, last'[s].responses)) =>
            /\ IsRootPath(last'[s].path)
            /\ last'[s].done
            /\ last'[s].fault = ""
            /\ pc'[s] = "idle"
            /\ projects' = projects
            /\ FsProjects(fs'[s], projects') = FsProjects(fs[s], projects)

\* C15: a root-level MKD rejected with 550 "already exists" leaves the
\* projects of the store and the session's visible projects as they were, and
\* no 257 is sent.
C15_RejectedMKDChangesNothing ==
    /\ []RejectedIsOnlyAnswer
    /\ [][RejectedChangesNothing]_vars

\* A root-level MKD on a taken name was answered "already exists".
C15_Witness ==
    \E s \in Sessions :
        /\ last[s].done
        /\ IsRootPath(last[s].path)
        /\ last[s].existed
        /\ last[s].responses = <<AlreadyExists>>

\* C18: in a session that has created a project, a later root-level MKD is
\* answered 550 and creates nothing when the name is one the session sees,
\* and is answered 257 and creates the project when the name is unused.
C18_UsableAfterCreate ==
    \A s \in Sessions :
        (last[s].done /\ IsRootPath(last[s].path) /\ last[s].later) =>
            /\ (last[s].existed /\ last[s].visible) =>
                   last[s].responses = <<AlreadyExists>> /\ last[s].created = 0
            /\ ~last[s].existed =>
                   /\ last[s].responses = <<Created(last[s].path)>>
                   /\ \E q \in projects :
                          q.pk = last[s].created /\ q.name = RootOf(last[s].path)

\* ---------------------------------------- properties: the analysis command
EarlyFailures ==
    {"no project", "no json file", "no template file", "json error", "template error"}

\* C9: a run that fails for a missing project, a missing or unreadable
\* specification or template file or an unparseable specification has changed
\* nothing in the store.
C9_FailedIngestChangesNothing ==
    \A r \in Procs :
        run[r].outcome \in EarlyFailures =>
            /\ ~run[r].changed
            /\ run[r].analysis = <<>>
            /\ run[r].made = {}

\* A run has stopped on a field whose path did not resolve.
FailedOnPath(r) ==
    /\ run[r].pc = "done"
    /\ run[r].outcome = "fault"
    /\ run[r].at >= 1
    /\ Pending(run[r])
    /\ ~Resolvable(Get(loads(run[r].json)[run[r].at].attrs, "path", "/data/a.txt"))

\* C10: when a path fails to resolve during job creation, the run has failed,
\* it leaves no job, and it reports the Data records it had created; and no
\* job is bound to a path that did not resolve.
C10_PartialFailureReported ==
    /\ \A r \in Procs :
           FailedOnPath(r) =>
               /\ ~\E j \in jobs : j.run = r
               /\ run[r].reported = run[r].made
    /\ \A j \in jobs : \A path \in j.paths : Resolvable(path)

\* The rows of a table that run r inserted.
RowsOf(table, r) == {x \in table : x.run = r}

\* The top-level fields of a document, other than settings, that carry a path.
PathFields(doc) ==
    {i \in 1..Len(doc) : doc[i].key # "settings" /\ HasKey(doc[i].attrs, "path")}

\* C11: a run with job creation that went through has created exactly one
\* Data record for each top-level field other than settings that carries a
\* path, none for any other field, and exactly one job for its analysis.
C11_OneDataPerPathField ==
    \A r \in Procs :
        run[r].outcome = "job created" =>
            LET doc == loads(run[r].json)
            IN  /\ \A i \in 1..Len(doc) :
                       Cardinality({d \in RowsOf(data, r) : d.key = doc[i].key})
                           = IF i \in PathFields(doc) THEN 1 ELSE 0
                /\ Cardinality({j \in RowsOf(jobs, r) :
                                  j.analysis = run[r].analysis}) = 1

\* C12: every analysis is under the project its run was given, carries the
\* name its document's settings give, and stores the specification text and
\* the template text exactly as they were read.
C12_StoredVerbatim ==
    \A a \in analyses :
        LET rec == run[a.run]
            st == Settings(loads(rec.json))
        IN  /\ a.project = rec.pid
            /\ \E q \in projects : q.pk = a.project
            /\ HasKey(st, "name") => a.name = st.name
            /\ a.json_text = <<"text of", rec.json>>
            /\ a.template = <<"text of", rec.template>>

\* The analysis of document d1 is stored under project 1 with the name A1.
C12_Witness ==
    \E a \in analyses :
        /\ a.name = "A1"
        /\ a.project = DefaultPid
        /\ a.json_text = <<"text of", "d1.hjson">>
        /\ a.template = <<"text of", "t.sh">>

\* A run has failed where its analysis was to be created.
FailedOnAnalysis(r) ==
    run[r].pc = "done" /\ run[r].outcome = "fault" /\ run[r].analysis = <<>>

\* C13: no two analyses of a project share a name, and a run whose name is
\* taken in its project fails and creates no analysis.
C13_AnalysisNamesUnique ==
    /\ \A a1, a2 \in analyses :
           (a1.project = a2.project /\ a1.name = a2.name) => a1 = a2
    /\ \A r \in Procs : FailedOnAnalysis(r) => RowsOf(analyses, r) = {}

\* The same document was ingested twice: one analysis, one failed run.
C13_Witness ==
    \E r1, r2 \in Procs :
        /\ r1 # r2
        /\ run[r1].json = run[r2].json
        /\ run[r1].pid = run[r2].pid
        /\ RowsOf(analyses, r1) # {}
        /\ FailedOnAnalysis(r2)

\* The items of a document for which the command creates a Data record.
DataItems(doc) == {i \in 1..Len(doc) : HasKey(doc[i].attrs, "path")}

\* Run r is between its first step and its last.
InProgress(r) == run[r].pc \notin {"idle", "done"}

\* Run r has inserted some of its Data records, will insert the others, and
\* will then insert its job.
PartOfDataVisible(r) ==
    LET doc == loads(run[r].json)
    IN  /\ run[r].pc = "data"
        /\ RowsOf(data, r) # {}
        /\ Cardinality(RowsOf(data, r)) < Cardinality(DataItems(doc))
        /\ \A i \in DataItems(doc) : Resolvable(doc[i].attrs["path"])

\* C14: with two runs under way on one project, neither can see of the other
\* a job without all its Data records, or part of the Data records of a run
\* whose job is still to come.
C14_DataAndJobAtomic ==
    \A r1, r2 \in Procs :
        (r1 # r2 /\ InProgress(r1) /\ run[r1].pid = run[r2].pid) =>
            /\ RowsOf(jobs, r2) # {} =>
                   Cardinality(RowsOf(data, r2))
                       = Cardinality(DataItems(loads(run[r2].json)))
            /\ ~PartOfDataVisible(r2)

\* What a settings section supplies under a key, or the placeholder.
Supplied(st, k, placeholder) == IF k \in DOMAIN st THEN st[k] ELSE placeholder

\* A run that failed where its analysis was to be created found its name taken.
FailsOnlyOnTakenName ==
    \A r \in Procs :
        FailedOnAnalysis(r) =>
            \E a \in analyses :
                /\ a.project = run[r].pid
                /\ a.name = Supplied(Settings(loads(run[r].json)), "name", "No name set")

\* No run of a document without a name in its settings failed where its
\* analysis was to be created.
NamelessNeverFails ==
    \A r \in Procs :
        FailedOnAnalysis(r) => "name" \in DOMAIN Settings(loads(run[r].json))

\* C16 as stated: absent settings never fail a run, and every analysis has
\* the placeholder for each absent value and the supplied value, as supplied,
\* for each present one.
C16_SuppliedValuesAsGiven ==
    /\ NamelessNeverFails
    /\ \A a \in analyses :
           LET st == Settings(loads(run[a.run].json))
           IN  /\ a.name = Supplied(st, "name", "No name set")
               /\ a.text = Supplied(st, "help", "No help set")
               /\ a.summary = Supplied(st, "summary", "No summary set")

\* C16: absent settings are no error in themselves: a run fails at its
\* analysis only when the name, placeholder included, is taken in the project,
\* and every analysis has the placeholder for each absent value, the supplied
\* name and summary, and the supplied help text with its leading indentation
\* stripped.
C16_PlaceholdersForAbsent ==
    /\ FailsOnlyOnTakenName
    /\ \A a \in analyses :
           LET st == Settings(loads(run[a.run].json))
           IN  /\ a.name = Supplied(st, "name", "No name set")
               /\ a.text = dedent(Supplied(st, "help", "No help set"))
               /\ a.summary = Supplied(st, "summary", "No summary set")

\* One analysis made from a document without settings, one from a document
\* whose settings give an indented help text, one from settings without help.
C16_Witness ==
    /\ \E a \in analyses :
           /\ run[a.run].json = "d3.hjson"
           /\ a.name = "No name set" /\ a.text = "No help set"
           /\ a.summary = "No summary set"
    /\ \E a \in analyses :
           /\ run[a.run].json = "d1.hjson"
           /\ a.name = "A1" /\ a.text = "usage" /\ a.summary = "first"

\* The rows of run r are in the order analysis, Data records, job: while it
\* has no analysis it has no Data record and no job, and once it has a job
\* the loop over its document is over, every item with a path has its Data
\* record and the run has ended.
InOrder(r) ==
    /\ RowsOf(analyses, r) = {} => RowsOf(data, r) = {} /\ RowsOf(jobs, r) = {}
    /\ RowsOf(jobs, r) # {} =>
           /\ ~Pending(run[r])
           /\ run[r].pc = "done"
           /\ \A i \in DataItems(loads(run[r].json)) :
                  \E d \in RowsOf(data, r) : d.id = DataId(r, i)

\* C17: a run creates its analysis first, then its Data records, and its job
\* last, after every item of its document has been looked at.
C17_AnalysisDataJobOrder == \A r \in Procs : InOrder(r)

\* A run has made its analysis, two Data records and then its job.
C17_Witness ==
    \E r \in Procs :
        /\ run[r].outcome = "job created"
        /\ RowsOf(analyses, r) # {}
        /\ Cardinality(RowsOf(data, r)) = 2
        /\ RowsOf(jobs, r) # {}

\* The usage of every analysis and job is the one its run selected.
RowsCarryRunUsage ==
    /\ \A a \in analyses : a.usage = run[a.run].usage
    /\ \A j \in jobs : j.usage = run[j.run].usage

\* A step of the command under options o that gets to the project has written
\* the usage --project_usage selects, and runs with the usage --analysis_usage
\* selects.
UsageFromOwnOption ==
    \A r \in Procs, o \in Options :
        (handle(r, o) /\ reaches_update(o, siteAdmin)) =>
            /\ \A q \in projects' :
                   q.pk = o.pid =>
                       q.usage = usage_map(ProjectUsageChoices, o.project_usage, USER)
            /\ run'[r].pc = "analysis" =>
                   run'[r].usage = usage_map(AnalysisUsageChoices, o.analysis_usage, USER)

\* C19: the project is given the usage --project_usage selects, whatever
\* --analysis_usage is, and the analysis and the job the usage
\* --analysis_usage selects.
C19_UsageOptionsIndependent ==
    /\ []RowsCarryRunUsage
    /\ [][UsageFromOwnOption]_vars

\* ------------------------------------------------ properties: the statistics
\* With DEBUG off, once a day's statistics were asked for, its file holds
\* what the first call returned, and the last call for it returned the same.
LaterCallsReturnFirst ==
    ~DEBUG =>
        /\ \A d \in Days :
               first[d] # NoFile =>
                   /\ files[file_name(d)] # NoFile
                   /\ json_loads(files[file_name(d)]) = first[d]
        /\ ret # NoCall => ret.data = first[ret.date]

\* A call that finds the file of its day returns the file's content, computes
\* nothing and writes nothing; a call that finds none returns the statistics
\* of the tables as they are and stores them only if DEBUG is off.
CallFollowsCache ==
    \A datetime \in Datetimes :
        compute_stats(datetime) =>
        LET name == file_name(date_of(datetime))
        IN  IF files[name] # NoFile
            THEN /\ ~ret'.computed
                 /\ ret'.data = json_loads(files[name])
                 /\ files' = files
            ELSE /\ ret'.computed
                 /\ ret'.data = Stats(ret'.date, posts, votes, users)
                 /\ files' = IF DEBUG THEN files
                             ELSE [files EXCEPT ![name] = json_dumps(ret'.data)]

\* C20: compute_stats returns the content of the day's file when there is one
\* and computes nothing; otherwise it computes the statistics and, with DEBUG
\* off, stores them, so that every later call for the day returns what the
\* first call returned whatever rows were added since; with DEBUG on it
\* stores nothing and every call computes anew.
C20_StatsCachedPerDate ==
    /\ []LaterCallsReturnFirst
    /\ [][CallFollowsCache]_vars
    /\ [][DEBUG => files' = files]_vars

\* With DEBUG off, a later call for a day returned what an earlier call had
\* computed from tables that had rows, though rows were added since.
C20_Witness ==
    /\ ~DEBUG
    /\ ret # NoCall
    /\ ~ret.computed
    /\ ~ret.fresh
    /\ ret.data = first[ret.date]

====
